---- MODULE Spec2Model ----
(***************************************************************************)
(* A model of the vertical composition engine of design.py: the geometry   *)
(* of expand_crop_box, the region selection of pick_primary_crop, the      *)
(* filter graph of build_filtergraph and the per-clip loop of main.        *)
(*                                                                         *)
(* Python values are modelled as follows.                                  *)
(*   - A crop box is the tuple <<x, y, w, h>>; None is the empty tuple, so *)
(*     Python's truthiness test `if crop_box` is Len(crop_box) > 0.        *)
(*   - A path is a non-empty sequence of characters (one-character         *)
(*     strings, ordinary runs abbreviated to one token); None is <<>>.     *)
(*   - A float expansion factor f is the integer numerator n of            *)
(*     f = n / FactorDen, so that w * f and the halves of the recentring   *)
(*     are exact rationals and int() is truncation toward zero.            *)
(***************************************************************************)
EXTENDS Integers, Sequences, FiniteSets, TLC

VARIABLES
    pc,         \* position of main: "start", "subs", "crop", "render", "done", "aborted"; "imported" when main is not running
    args,       \* the parsed command line (argparse namespace) and what it finds on disk
    inputs,     \* sorted(in_dir.glob("clip_*.mp4")), as positions in the sorted directory listing
    idx,        \* index into inputs of the clip of the current loop iteration
    srt,        \* main's local srt of the current iteration
    lookup,     \* the subtitle decision of the current iteration: the files on disk, the
                \* existence tests made and the warning printed; empty once the try block ran
    crop_box,   \* main's local crop_box of the current iteration
    trace,      \* what the try block of the current iteration did (calls made, exceptions raised)
    job,        \* the arguments and filter graph of the latest ff_design call
    renders,    \* log of ff_design calls of this run, one summary per call
    abortCause, \* the exception that ended main, "" while none
    call        \* the latest direct call of a helper function: its arguments and result

vars == <<pc, args, inputs, idx, srt, lookup, crop_box, trace, job, renders, abortCause, call>>

----------------------------------------------------------------------------
(* Bounds of the model *)

\* the expansion factor n / FactorDen is drawn with 1 <= n <= MaxFactorNum
FactorDen == 4
MaxFactorNum == 12
\* frames of the direct calls of expand_crop_box are at most MaxFrame x MaxFrame pixels
MaxFrame == 5
\* a detector output of a direct call of pick_primary_crop has at most MaxSegs segments,
\* each lasting 1..MaxDur time units
MaxSegs == 3
MaxDur == 2
\* a batch holds at most MaxClips clips
MaxClips == 3
\* crop boxes of the direct calls of build_filtergraph have origins in 0..MaxOrigin and
\* extents in -1..MaxExtent
MaxOrigin == 1
MaxExtent == 2
\* paths of the direct calls of escape_for_subtitles have at most MaxPathLen characters
MaxPathLen == 4

None == <<>>

\* the factor 1.0
One == FactorDen

Factors == 1..MaxFactorNum

Max(a, b) == IF a >= b THEN a ELSE b
Min(a, b) == IF a <= b THEN a ELSE b

----------------------------------------------------------------------------
(* expand_crop_box *)

\* Python's int() of the rational n / d, d > 0: truncation toward zero
IntTrunc(n, d) == IF n >= 0 THEN n \div d ELSE -((-n) \div d)

\* int(w * expansion_factor) with expansion_factor = f / FactorDen
ScaleExtent(w, f) == IntTrunc(w * f, FactorDen)

\* int(center - new_extent / 2) with center = origin + extent / 2
Recenter(origin, extent, new_extent) == IntTrunc(2 * origin + extent - new_extent, 2)

\* expand_crop_box with the centre taken as x + w, y + h: the halving left out
ExpandShifted(crop, video_w, video_h, f) ==
    LET new_w == ScaleExtent(crop[3], f)
        new_h == ScaleExtent(crop[4], f)
        new_x == Recenter(crop[1], 2 * crop[3], new_w)
        new_y == Recenter(crop[2], 2 * crop[4], new_h)
        cx == Max(0, new_x)
        cy == Max(0, new_y)
    IN  <<cx, cy, Min(new_w, video_w - cx), Min(new_h, video_h - cy)>>

\* expand_crop_box without lines 105-106: the extents are not clamped to the frame
ExpandUnclamped(crop, video_w, video_h, f) ==
    LET new_w == ScaleExtent(crop[3], f)
        new_h == ScaleExtent(crop[4], f)
    IN  <<Max(0, Recenter(crop[1], crop[3], new_w)),
          Max(0, Recenter(crop[2], crop[4], new_h)), new_w, new_h>>

\* expand_crop_box with lines 105-106 before lines 103-104: the extents are clamped
\* against the origin as it was computed, then the origin is clamped
ExpandExtentFirst(crop, video_w, video_h, f) ==
    LET new_w == ScaleExtent(crop[3], f)
        new_h == ScaleExtent(crop[4], f)
        new_x == Recenter(crop[1], crop[3], new_w)
        new_y == Recenter(crop[2], crop[4], new_h)
    IN  <<Max(0, new_x), Max(0, new_y),
          Min(new_w, video_w - new_x), Min(new_h, video_h - new_y)>>

expand_crop_box(crop, video_w, video_h, f) ==
    LET x == crop[1]
        y == crop[2]
        w == crop[3]
        h == crop[4]
        new_w == ScaleExtent(w, f)
        new_h == ScaleExtent(h, f)
        new_x == Recenter(x, w, new_w)
        new_y == Recenter(y, h, new_h)
        cx == Max(0, new_x)
        cy == Max(0, new_y)
    IN  <<cx, cy, Min(new_w, video_w - cx), Min(new_h, video_h - cy)>>

----------------------------------------------------------------------------
(* pick_primary_crop *)

Duration(s) == s.end - s.start

\* an insertion that puts e before the elements of equal key: a sort that reverses
\* the order of equal elements
RECURSIVE InsertByDurationUnstable(_, _)
InsertByDurationUnstable(sorted, e) ==
    IF sorted = <<>> THEN <<e>>
    ELSE IF Duration(Head(sorted)) > Duration(e)
         THEN <<Head(sorted)>> \o InsertByDurationUnstable(Tail(sorted), e)
         ELSE <<e>> \o sorted

\* one step of the stable descending sort: e goes behind every element whose key is
\* not smaller, so equal keys keep the order of the input (sorted(..., reverse=True)
\* keeps the original order of equal elements)
RECURSIVE InsertByDuration(_, _)
InsertByDuration(sorted, e) ==
    IF sorted = <<>> THEN <<e>>
    ELSE IF Duration(Head(sorted)) >= Duration(e)
         THEN <<Head(sorted)>> \o InsertByDuration(Tail(sorted), e)
         ELSE <<e>> \o sorted

\* sorted(segs, key=lambda s: end - start, reverse=True)
RECURSIVE SortByDuration(_)
SortByDuration(segs) ==
    IF segs = <<>> THEN <<>>
    ELSE InsertByDuration(SortByDuration(SubSeq(segs, 1, Len(segs) - 1)), segs[Len(segs)])

pick_primary_crop(segs) ==
    IF segs = <<>> THEN None
    ELSE LET s == SortByDuration(segs)[1]
         IN  IF Min(s.w, s.h) > 0 THEN <<s.x, s.y, s.w, s.h>> ELSE None

----------------------------------------------------------------------------
(* escape_for_subtitles and build_filtergraph *)

\* str.replace(ch, rep) over a sequence of characters
RECURSIVE Replace(_, _, _)
Replace(s, ch, rep) ==
    IF s = <<>> THEN <<>>
    ELSE (IF Head(s) = ch THEN rep ELSE <<Head(s)>>) \o Replace(Tail(s), ch, rep)

\* escape_for_subtitles with the backslash substitution applied last
EscapeBackslashLast(path) ==
    Replace(Replace(Replace(Replace(path, ":", <<"\\", ":">>),
                            ",", <<"\\", ",">>),
                    "'", <<"\\", "'">>),
            "\\", <<"\\", "\\">>)

escape_for_subtitles(path) ==
    Replace(Replace(Replace(Replace(path, "\\", <<"\\", "\\">>),
                            ":", <<"\\", ":">>),
                    ",", <<"\\", ",">>),
            "'", <<"\\", "'">>)

\* one element of parts: the input labels, the filter(s), their numeric parameters,
\* the (escaped) subtitle path, and the output label
Stage(ins, op, params, path, out) ==
    [ins |-> ins, op |-> op, params |-> params, path |-> path, out |-> out]

\* all(v > 0 for v in crop_box)
AllPositive(crop) == \A i \in 1..Len(crop) : crop[i] > 0

\* the foreground stage without the all(v > 0) test of line 165
ForegroundStageUnchecked(crop) ==
    IF Len(crop) > 0
    THEN Stage(<<"0:v">>, "crop", <<crop[3], crop[4], crop[1], crop[2]>>, None, "fg")
    ELSE Stage(<<"0:v">>, "crop_center_9_16", <<>>, None, "fg")

\* lines 164-177: the foreground stage
ForegroundStage(crop) ==
    IF Len(crop) > 0 /\ AllPositive(crop)
    THEN Stage(<<"0:v">>, "crop", <<crop[3], crop[4], crop[1], crop[2]>>, None, "fg")
    ELSE Stage(<<"0:v">>, "crop_center_9_16", <<>>, None, "fg")

\* the stages of lines 183-192 without line 189: base_label is left at [base]
CaptionStagesStale(srt_path) ==
    IF Len(srt_path) > 0
    THEN << Stage(<<"base">>, "subtitles", <<>>, escape_for_subtitles(srt_path), "base2"),
            Stage(<<"base", "1:v">>, "overlay", <<0, 0>>, None, "outv") >>
    ELSE << Stage(<<"base", "1:v">>, "overlay", <<0, 0>>, None, "outv") >>

\* lines 183-192: the optional subtitles stage and the template overlay
CaptionStages(srt_path) ==
    IF Len(srt_path) > 0
    THEN << Stage(<<"base">>, "subtitles", <<>>, escape_for_subtitles(srt_path), "base2"),
            Stage(<<"base2", "1:v">>, "overlay", <<0, 0>>, None, "outv") >>
    ELSE << Stage(<<"base", "1:v">>, "overlay", <<0, 0>>, None, "outv") >>

\* the value of parts before ",".join(parts)
build_filtergraph(crop, out_w, out_h, srt_path) ==
    << Stage(<<"0:v">>, "scale_cover,boxblur,crop", <<out_w, out_h>>, None, "bg"),
       ForegroundStage(crop),
       Stage(<<"fg">>, "scale_fit", <<out_w, out_h>>, None, "fgs"),
       Stage(<<"bg", "fgs">>, "overlay_center", <<>>, None, "base") >>
    \o CaptionStages(srt_path)

----------------------------------------------------------------------------
(* main: the command line, the clips and the external collaborators *)

\* OUTPUT_W, OUTPUT_H: the defaults of --width and --height
OUTPUT_W == 1080
OUTPUT_H == 1920

\* the stems of the files of in_dir that match clip_*.mp4, in sorted order: the clips
\* cut from the source video, some of them also present with burnt-in subtitles
ClipStems ==
    << <<"clip_", "1">>,
       <<"clip_", "2">>, <<"clip_", "2", "_subtitled">>,
       <<"clip_", "3">>, <<"clip_", "3", "_subtitled">>,
       <<"clip_", "4">>, <<"clip_", "5">>, <<"clip_", "6">>, <<"clip_", "7">> >>

\* clip.stem of the i-th file of the listing, as path characters
ClipStem(i) == ClipStems[i]

\* line 305: out_dir / (clip.stem.replace("_subtitled", "") + "_vertical.mp4")
Destination(i) ==
    <<"out", "/">> \o Replace(ClipStem(i), "_subtitled", <<>>) \o <<"_vertical.mp4">>

\* clip.with_suffix(".srt") and Path(args.subs_dir) / (clip.stem + ".srt")
SrtBesideClip(i) == <<"clips", "/">> \o ClipStem(i) \o <<".srt">>
SrtInSubsDir(i) == <<"subtitles", "/">> \o ClipStem(i) \o <<".srt">>

\* a value of --subs_file
SubsFilePath == <<"C", ":", "\\", "a", ",", "b", "'", "s", ".srt">>

\* --crop_expansion: 0.5 (or the nearest smaller factor), 1.0 and the default 3.0
MainFactors == {One \div 2, One, 3 * One}

\* the command lines of the model; --width is the default or 0, which argparse
\* (type=int) accepts as it accepts any integer; only a named --subs_file can exist
ArgsSet ==
    { a \in [ template_exists : BOOLEAN,
              disable_smart_crop : BOOLEAN,
              pyannote_token : BOOLEAN,
              crop_expansion : MainFactors,
              width : {OUTPUT_W, 0},
              height : {OUTPUT_H},
              subs_mode : {"off", "auto", "file"},
              subs_file : {<<>>, SubsFilePath},
              subs_file_exists : BOOLEAN ] :
        a.subs_file_exists => Len(a.subs_file) > 0 }

\* a detected region lasting dur time units
Seg(start, dur, rect) ==
    [start |-> start, end |-> start + dur, x |-> rect[1], y |-> rect[2],
     w |-> rect[3], h |-> rect[4]]

\* what resize() gives main for one clip: an exception, or time-ordered segments
Detected(segs) == [raised |-> FALSE, segments |-> segs]
DetectorRaises == [raised |-> TRUE, segments |-> <<>>]

MainDetections ==
    { DetectorRaises,
      Detected(<<>>),
      Detected(<<Seg(0, 2, <<1, 0, 0, 2>>)>>),
      Detected(<<Seg(0, 1, <<1, 1, 2, 2>>)>>),
      Detected(<<Seg(0, 1, <<2, 1, 1, 2>>), Seg(1, 1, <<1, 1, 2, 2>>)>>),
      Detected(<<Seg(0, 1, <<2, 1, 1, 2>>), Seg(1, 2, <<1, 2, 3, 1>>)>>) }

\* what get_video_dimensions gives main: an exception (ffprobe fails), or (w, h)
Probed(w, h) == [raised |-> FALSE, w |-> w, h |-> h]
ProbeRaises == [raised |-> TRUE, w |-> 0, h |-> 0]

MainProbes == { ProbeRaises, Probed(4, 4), Probed(6, 3) }

\* lines 266-276: the subtitle file of one clip; beside and in_dir say whether
\* clip.srt exists beside the clip and in --subs_dir
SubtitleFor(a, clip, beside, in_dir) ==
    IF a.subs_mode = "file" /\ Len(a.subs_file) > 0
    THEN (IF a.subs_file_exists THEN a.subs_file ELSE None)
    ELSE IF a.subs_mode = "auto"
         THEN (IF beside THEN SrtBesideClip(clip)
               ELSE IF in_dir THEN SrtInSubsDir(clip) ELSE None)
         ELSE None

\* lines 266-276: what the decision found on disk and did: the paths whose existence
\* it tested and whether it printed the "--subs_file not found" warning of line 271
SubtitleLookup(a, clip, beside, in_dir) ==
    [ done |-> TRUE, beside |-> beside, in_dir |-> in_dir,
      tested |-> IF a.subs_mode = "file" /\ Len(a.subs_file) > 0 THEN {a.subs_file}
                 ELSE IF a.subs_mode = "auto"
                      THEN {SrtBesideClip(clip)}
                           \cup (IF beside THEN {} ELSE {SrtInSubsDir(clip)})
                      ELSE {},
      warned |-> a.subs_mode = "file" /\ Len(a.subs_file) > 0 /\ ~a.subs_file_exists ]

NoLookup ==
    [done |-> FALSE, beside |-> FALSE, in_dir |-> FALSE, tested |-> {}, warned |-> FALSE]

\* what one pass of lines 278-302 did: the resulting crop_box and the calls made
Resolved(crop, picked, det_called, det_raised, probe_called, probe_raised, expanded) ==
    [crop_box |-> crop, picked |-> picked, detector_called |-> det_called,
     detector_raised |-> det_raised, probe_called |-> probe_called,
     probe_raised |-> probe_raised, expanded |-> expanded]

NothingResolved == Resolved(None, None, FALSE, FALSE, FALSE, FALSE, FALSE)

\* lines 278-302: the crop of one clip, given what resize() and ffprobe answer
ResolveCrop(a, det, probe) ==
    IF a.disable_smart_crop \/ ~a.pyannote_token THEN NothingResolved
    ELSE IF det.raised THEN Resolved(None, None, TRUE, TRUE, FALSE, FALSE, FALSE)
    ELSE LET picked == pick_primary_crop(det.segments)
         IN  IF Len(picked) > 0 /\ a.crop_expansion # One
             THEN IF probe.raised
                  THEN Resolved(picked, picked, TRUE, FALSE, TRUE, TRUE, FALSE)
                  ELSE Resolved(expand_crop_box(picked, probe.w, probe.h, a.crop_expansion),
                                picked, TRUE, FALSE, TRUE, FALSE, TRUE)
             ELSE Resolved(picked, picked, TRUE, FALSE, FALSE, FALSE, FALSE)

\* lines 197-218: the arguments of one ff_design call and the filter graph it builds
ff_design(src, dst, crop, out_w, out_h, srt_path) ==
    [src |-> src, dst |-> dst, crop_box |-> crop, out_w |-> out_w, out_h |-> out_h,
     srt_path |-> srt_path, vf |-> build_filtergraph(crop, out_w, out_h, srt_path)]

NoJob ==
    [src |-> 0, dst |-> <<>>, crop_box |-> None, out_w |-> 0, out_h |-> 0,
     srt_path |-> None, vf |-> <<>>]

NoCall == [fn |-> "none"]

----------------------------------------------------------------------------
(* main *)

\* design.py is run as a script: main() starts on a parsed command line
RunAsScript ==
    /\ pc = "start"
    /\ args \in ArgsSet
    /\ \E n \in 0..MaxClips : inputs = [i \in 1..n |-> i]
    /\ idx = 0
    /\ srt = None
    /\ lookup = NoLookup
    /\ crop_box = None
    /\ trace = NothingResolved
    /\ job = NoJob
    /\ renders = <<>>
    /\ abortCause = ""
    /\ call = NoCall

\* lines 254-256: the template is missing, main raises
TemplateMissing ==
    /\ pc = "start"
    /\ ~args.template_exists
    /\ pc' = "aborted"
    /\ abortCause' = "FileNotFoundError"
    /\ UNCHANGED <<args, inputs, idx, srt, lookup, crop_box, trace, job, renders, call>>

\* lines 258-261: no clip matches, main returns
NoClips ==
    /\ pc = "start"
    /\ args.template_exists
    /\ inputs = <<>>
    /\ pc' = "done"
    /\ UNCHANGED <<args, inputs, idx, srt, lookup, crop_box, trace, job, renders, abortCause, call>>

\* the loop entered without the test of lines 254-256
EnterLoopUnchecked ==
    /\ pc = "start"
    /\ inputs # <<>>
    /\ idx' = 1
    /\ pc' = "subs"
    /\ UNCHANGED <<args, inputs, srt, lookup, crop_box, trace, job, renders, abortCause, call>>

\* line 263: the loop is entered
EnterLoop ==
    /\ pc = "start"
    /\ args.template_exists
    /\ inputs # <<>>
    /\ idx' = 1
    /\ pc' = "subs"
    /\ UNCHANGED <<args, inputs, srt, lookup, crop_box, trace, job, renders, abortCause, call>>

\* lines 266-276
DecideSubtitles ==
    /\ pc = "subs"
    /\ \E beside \in BOOLEAN, in_dir \in BOOLEAN :
          /\ srt' = SubtitleFor(args, inputs[idx], beside, in_dir)
          /\ lookup' = SubtitleLookup(args, inputs[idx], beside, in_dir)
    /\ pc' = "crop"
    /\ UNCHANGED <<args, inputs, idx, crop_box, trace, job, renders, abortCause, call>>

\* lines 278-302 without the except clause for the detector: its exception ends main
SmartCropUncaught ==
    /\ pc = "crop"
    /\ \E det \in MainDetections, probe \in MainProbes :
          /\ trace' = ResolveCrop(args, det, probe)
          /\ crop_box' = trace'.crop_box
          /\ IF trace'.detector_raised
             THEN pc' = "aborted" /\ abortCause' = "DetectorError"
             ELSE pc' = "render" /\ abortCause' = abortCause
    /\ lookup' = NoLookup
    /\ UNCHANGED <<args, inputs, idx, srt, job, renders, call>>

\* lines 278-302
SmartCrop ==
    /\ pc = "crop"
    /\ \E det \in MainDetections, probe \in MainProbes :
          /\ trace' = ResolveCrop(args, det, probe)
          /\ crop_box' = trace'.crop_box
    /\ pc' = "render"
    /\ lookup' = NoLookup
    /\ UNCHANGED <<args, inputs, idx, srt, job, renders, abortCause, call>>

\* one entry of the log of ff_design calls
Rendered(clip, dst, crop, det_raised, ok) ==
    [clip |-> clip, dst |-> dst, fallback |-> (crop = None),
     detector_raised |-> det_raised, ok |-> ok]

\* lines 304-316 with run (lines 51-54): ffmpeg succeeds, and the loop goes on to the
\* next clip or ends
Render ==
    /\ pc = "render"
    /\ job' = ff_design(inputs[idx], Destination(inputs[idx]), crop_box,
                        args.width, args.height, srt)
    /\ renders' = Append(renders,
                         Rendered(inputs[idx], Destination(inputs[idx]), crop_box,
                                  trace.detector_raised, TRUE))
    /\ IF idx < Len(inputs)
       THEN idx' = idx + 1 /\ pc' = "subs"
       ELSE idx' = idx /\ pc' = "done"
    /\ UNCHANGED <<args, inputs, srt, lookup, crop_box, trace, abortCause, call>>

\* lines 304-316 with run (lines 51-54): ffmpeg fails, subprocess.run(check=True) raises
\* CalledProcessError, and nothing in ff_design or main catches it
RenderFails ==
    /\ pc = "render"
    /\ job' = ff_design(inputs[idx], Destination(inputs[idx]), crop_box,
                        args.width, args.height, srt)
    /\ renders' = Append(renders,
                         Rendered(inputs[idx], Destination(inputs[idx]), crop_box,
                                  trace.detector_raised, FALSE))
    /\ pc' = "aborted"
    /\ abortCause' = "CalledProcessError"
    /\ UNCHANGED <<args, inputs, idx, srt, lookup, crop_box, trace, call>>

----------------------------------------------------------------------------
(* the helpers called directly, with design.py imported as a module; a behaviour *)
(* holds one call, so that each call is judged from its own arguments            *)

DefaultArgs ==
    [ template_exists |-> TRUE, disable_smart_crop |-> FALSE, pyannote_token |-> FALSE,
      crop_expansion |-> 3 * One, width |-> OUTPUT_W, height |-> OUTPUT_H,
      subs_mode |-> "off", subs_file |-> <<>>, subs_file_exists |-> FALSE ]

Imported ==
    /\ pc = "imported"
    /\ args = DefaultArgs
    /\ inputs = <<>>
    /\ idx = 0
    /\ srt = None
    /\ lookup = NoLookup
    /\ crop_box = None
    /\ trace = NothingResolved
    /\ job = NoJob
    /\ renders = <<>>
    /\ abortCause = ""
    /\ call = NoCall

\* expand_crop_box(crop, fw, fh, f / FactorDen) on a valid rectangle of a frame
CallExpand ==
    /\ pc = "imported"
    /\ call = NoCall
    /\ \E fw \in 1..MaxFrame, fh \in 1..MaxFrame, f \in Factors :
       \E x \in 0..(fw - 1), y \in 0..(fh - 1) :
       \E w \in 1..(fw - x), h \in 1..(fh - y) :
          call' = [fn |-> "expand_crop_box", crop_box |-> <<x, y, w, h>>,
                   video_w |-> fw, video_h |-> fh, factor |-> f,
                   result |-> expand_crop_box(<<x, y, w, h>>, fw, fh, f)]
    /\ UNCHANGED <<pc, args, inputs, idx, srt, lookup, crop_box, trace, job, renders, abortCause>>

\* expand_crop_box on a 100x100 region at the corner (and at the centre) of a 150x150
\* frame with the default factor of main, 3.0
CallExpandExample ==
    /\ pc = "imported"
    /\ call = NoCall
    /\ \E crop \in {<<0, 0, 100, 100>>, <<25, 25, 100, 100>>} :
          call' = [fn |-> "expand_crop_box", crop_box |-> crop,
                   video_w |-> 150, video_h |-> 150, factor |-> 3 * One,
                   result |-> expand_crop_box(crop, 150, 150, 3 * One)]
    /\ UNCHANGED <<pc, args, inputs, idx, srt, lookup, crop_box, trace, job, renders, abortCause>>

\* the rectangles of the segments of a direct call, two of them degenerate
SegRects == { <<0, 0, 2, 3>>, <<1, 0, 3, 2>>, <<2, 1, 0, 3>>, <<1, 1, 2, 0>> }

RECURSIVE StartOf(_, _)
StartOf(durs, i) == IF i = 1 THEN 0 ELSE StartOf(durs, i - 1) + durs[i - 1]

\* n segments that follow one another in time, as the detector returns them
Consecutive(n, durs, rects) == [i \in 1..n |-> Seg(StartOf(durs, i), durs[i], rects[i])]

\* pick_primary_crop(crops) on a detector output of up to MaxSegs segments
CallPick ==
    /\ pc = "imported"
    /\ call = NoCall
    /\ \E n \in 0..MaxSegs :
       \E durs \in [1..n -> 1..MaxDur], rects \in [1..n -> SegRects] :
          call' = [fn |-> "pick_primary_crop", segments |-> Consecutive(n, durs, rects),
                   result |-> pick_primary_crop(Consecutive(n, durs, rects))]
    /\ UNCHANGED <<pc, args, inputs, idx, srt, lookup, crop_box, trace, job, renders, abortCause>>

\* crop boxes of a direct call of build_filtergraph: None and tuples, also with a
\* zero origin and with non-positive extents
GraphCrops ==
    {None} \cup { <<x, y, w, h>> : x \in 0..MaxOrigin, y \in 0..MaxOrigin,
                                   w \in (-1)..MaxExtent, h \in (-1)..MaxExtent }

GraphSubtitles == { None, SubsFilePath, SrtBesideClip(1) }

\* build_filtergraph(crop_box, out_w, out_h, srt_path)
CallBuild ==
    /\ pc = "imported"
    /\ call = NoCall
    /\ \E crop \in GraphCrops, path \in GraphSubtitles :
          call' = [fn |-> "build_filtergraph", crop_box |-> crop, srt_path |-> path,
                   result |-> build_filtergraph(crop, OUTPUT_W, OUTPUT_H, path)]
    /\ UNCHANGED <<pc, args, inputs, idx, srt, lookup, crop_box, trace, job, renders, abortCause>>

\* the characters of the paths of a direct call: the four that the subtitles filter
\* treats specially, a space and an ordinary character
PathChars == { "\\", ":", ",", "'", " ", "a" }

\* escape_for_subtitles(path)
CallEscape ==
    /\ pc = "imported"
    /\ call = NoCall
    /\ \E n \in 1..MaxPathLen :
       \E path \in [1..n -> PathChars] :
          call' = [fn |-> "escape_for_subtitles", path |-> path,
                   result |-> escape_for_subtitles(path)]
    /\ UNCHANGED <<pc, args, inputs, idx, srt, lookup, crop_box, trace, job, renders, abortCause>>

----------------------------------------------------------------------------

Init == RunAsScript \/ Imported

Next ==
    \/ TemplateMissing \/ NoClips \/ EnterLoop \/ DecideSubtitles \/ SmartCrop \/ Render
    \/ RenderFails
    \/ CallExpand \/ CallExpandExample \/ CallPick \/ CallBuild \/ CallEscape

Spec == Init /\ [][Next]_vars

----------------------------------------------------------------------------
(* Properties *)

\* a crop box with positive width and height
ExtentsPositive(crop) == Len(crop) = 4 /\ crop[3] > 0 /\ crop[4] > 0

\* a Rectangle of the data model inside its frame: 0 <= x, 0 <= y, w > 0, h > 0,
\* x + w <= frame_w, y + h <= frame_h
ValidIn(crop, fw, fh) ==
    /\ Len(crop) = 4
    /\ crop[1] >= 0 /\ crop[2] >= 0 /\ crop[3] > 0 /\ crop[4] > 0
    /\ crop[1] + crop[3] <= fw /\ crop[2] + crop[4] <= fh

\* the ff_design call recorded in job is the latest act of main, so that trace, srt and
\* crop_box are those of the clip that job renders
JustRendered == job # NoJob /\ pc \in {"subs", "done", "aborted"}

Called(fn) == pc = "imported" /\ call.fn = fn

\* the first segment, in the order of the detector output, among those of the longest
\* duration
FirstLongest(segs) ==
    LET i == CHOOSE i \in 1..Len(segs) :
                 /\ \A j \in 1..Len(segs) : Duration(segs[j]) <= Duration(segs[i])
                 /\ \A j \in 1..(i - 1) : Duration(segs[j]) < Duration(segs[i])
    IN  segs[i]

RectOf(s) == <<s.x, s.y, s.w, s.h>>

Area(crop) == crop[3] * crop[4]

Abs(n) == IF n >= 0 THEN n ELSE -n

\* the stage of a graph that crops the source to exactly the rectangle crop
ExactCropStage(crop) ==
    Stage(<<"0:v">>, "crop", <<crop[3], crop[4], crop[1], crop[2]>>, None, "fg")

\* C1: whenever main hands ff_design a crop box with positive width and height (any
\* origin x >= 0, y >= 0), the foreground stage of the graph crops to exactly that
\* rectangle, and the centered 9:16 fallback is used only for an absent crop or one
\* with a non-positive width or height.
C1_ForegroundCropsExactRectangle ==
    JustRendered =>
        LET c == job.crop_box
            fg == job.vf[2]
        IN  /\ (ExtentsPositive(c) /\ c[1] >= 0 /\ c[2] >= 0) => fg = ExactCropStage(c)
            /\ fg.op = "crop_center_9_16" => (c = None \/ ~ExtentsPositive(c))

\* C2: the ff_design calls of a run are those of the clips in sorted order, each clip
\* once; a clip whose detection raised is rendered with crop None; a run that ends
\* normally has rendered every clip; and nothing but the missing template or a failed
\* render ever ends a run early: a detection failure never does.
C2_BatchResilience ==
    /\ Len(renders) <= Len(inputs)
    /\ \A i \in 1..Len(renders) :
          /\ renders[i].clip = inputs[i]
          /\ renders[i].detector_raised => renders[i].fallback
    /\ (pc = "render" /\ trace.detector_raised) => crop_box = None
    /\ pc = "done" => Len(renders) = Len(inputs)
    /\ pc = "aborted" => abortCause \in {"FileNotFoundError", "CalledProcessError"}
    /\ abortCause = "CalledProcessError" => ~renders[Len(renders)].ok

\* a batch of three clips: the detection of the second raised and it was rendered with
\* the fallback, the first and the third were rendered with a detected crop
C2_Witness ==
    /\ pc = "done"
    /\ Len(inputs) = 3 /\ Len(renders) = 3
    /\ renders[2].detector_raised /\ renders[2].fallback /\ renders[2].ok
    /\ \A i \in {1, 3} :
          ~renders[i].detector_raised /\ ~renders[i].fallback /\ renders[i].ok

\* C3: a failed render of one clip does not keep main from rendering the later clips:
\* a run that has ended with a failed render has called ff_design for every clip.
C3_RenderErrorDoesNotStopBatch ==
    (pc \in {"done", "aborted"} /\ \E i \in 1..Len(renders) : ~renders[i].ok)
        => Len(renders) = Len(inputs)

\* C4: when a step of the crop resolution of a clip raised (the detector or the
\* dimension probe), the crop handed to ff_design for that clip is None.
C4_ResolverFailureDegradesToNone ==
    (JustRendered /\ (trace.detector_raised \/ trace.probe_raised))
        => job.crop_box = None

C6_LongestSpanFirstOccurrence ==
    (Called("pick_primary_crop") /\ call.segments # <<>>) =>
        LET segs == call.segments
            s == FirstLongest(segs)
        IN  /\ \A j \in 1..Len(segs) :
                  /\ Duration(segs[j]) <= Duration(s)
                  /\ Duration(segs[j]) = Duration(s) => s.start <= segs[j].start
            /\ call.result = IF s.w > 0 /\ s.h > 0 THEN RectOf(s) ELSE None

\* two regions of the same, longest duration with different proper rectangles, and the
\* rectangle of the earlier one is the result
C6_Witness ==
    /\ Called("pick_primary_crop")
    /\ \E i \in 1..Len(call.segments), j \in 1..Len(call.segments) :
          /\ i < j
          /\ call.segments[i].start < call.segments[j].start
          /\ Duration(call.segments[i]) = Duration(call.segments[j])
          /\ \A k \in 1..Len(call.segments) :
                Duration(call.segments[k]) <= Duration(call.segments[i])
          /\ RectOf(call.segments[i]) # RectOf(call.segments[j])
          /\ ExtentsPositive(RectOf(call.segments[i]))
          /\ ExtentsPositive(RectOf(call.segments[j]))
          /\ call.result = RectOf(call.segments[i])

InFrame(crop, fw, fh) ==
    crop[1] >= 0 /\ crop[2] >= 0 /\ crop[1] + crop[3] <= fw /\ crop[2] + crop[4] <= fh

\* C7: for a valid rectangle of a frame and factors factor2 > factor1 >= 1.0, the area
\* of the result at factor2 is at least the area of the result at factor1, and both
\* results lie within the frame.
C7_ExpansionMonotoneAndBounded ==
    (Called("expand_crop_box") /\ call.factor >= One
        /\ ValidIn(call.crop_box, call.video_w, call.video_h)) =>
        /\ InFrame(call.result, call.video_w, call.video_h)
        /\ \A f2 \in Factors :
              f2 > call.factor =>
                 LET r2 == expand_crop_box(call.crop_box, call.video_w, call.video_h, f2)
                 IN  /\ Area(r2) >= Area(call.result)
                     /\ InFrame(r2, call.video_w, call.video_h)

\* an expansion by more than 1.0 that the frame clamps, and a larger factor that gives
\* a strictly larger area
C7_Witness ==
    /\ Called("expand_crop_box")
    /\ call.factor > One
    /\ call.result[3] < ScaleExtent(call.crop_box[3], call.factor)
    /\ \E f2 \in Factors :
          /\ f2 > call.factor
          /\ Area(expand_crop_box(call.crop_box, call.video_w, call.video_h, f2))
                > Area(call.result)

\* C8: expand_crop_box at factor 1.0 returns a valid rectangle unchanged, and main at
\* crop_expansion = 1.0 hands the selected rectangle to ff_design unchanged without
\* calling get_video_dimensions or expand_crop_box.
C8_FactorOneIsNoOp ==
    /\ (Called("expand_crop_box") /\ call.factor = One
          /\ ValidIn(call.crop_box, call.video_w, call.video_h))
          => call.result = call.crop_box
    /\ (pc = "render" /\ args.crop_expansion = One) =>
          (crop_box = trace.picked /\ ~trace.probe_called /\ ~trace.expanded)
    /\ (JustRendered /\ args.crop_expansion = One) =>
          (job.crop_box = trace.picked /\ ~trace.probe_called /\ ~trace.expanded)

\* a rectangle of odd width and even height, off the origin, expanded by 1.0
C8_Witness ==
    /\ Called("expand_crop_box")
    /\ call.factor = One
    /\ call.crop_box[3] % 2 = 1 /\ call.crop_box[4] % 2 = 0
    /\ call.crop_box[1] > 0 /\ call.crop_box[2] > 0
    /\ call.result = call.crop_box

\* C9: the result of expand_crop_box has the aspect ratio of its input, up to the
\* truncation of each extent by less than one pixel (w' = w*f - a, h' = h*f - b with
\* 0 <= a, b < 1 gives |w'*h - h'*w| < max(w, h)), also when the box is clamped.
C9_AspectRatioMaintained ==
    Called("expand_crop_box") =>
        Abs(call.result[3] * call.crop_box[4] - call.result[4] * call.crop_box[3])
            < Max(call.crop_box[3], call.crop_box[4])

StageOuts(graph) == [i \in 1..Len(graph) |-> graph[i].out]

StageOps(graph) == [i \in 1..Len(graph) |-> graph[i].op]

\* C10: without a subtitle the graph is background, foreground, scale-to-fit, centered
\* overlay, graphic overlay, in that order, with no subtitles stage; with a subtitle it
\* has exactly one subtitles stage, after the centered overlay and before the graphic
\* overlay, which then reads the output of the subtitles stage; the graphic overlay is
\* the last stage and the only one that produces [outv].
C10_StageOrdering ==
    Called("build_filtergraph") =>
        LET g == call.result
            n == Len(g)
            fgop == IF Len(call.crop_box) > 0 /\ AllPositive(call.crop_box)
                    THEN "crop" ELSE "crop_center_9_16"
        IN  /\ SubSeq(StageOuts(g), 1, 4) = <<"bg", "fg", "fgs", "base">>
            /\ SubSeq(StageOps(g), 1, 4)
                  = <<"scale_cover,boxblur,crop", fgop, "scale_fit", "overlay_center">>
            /\ g[3].ins = <<"fg">> /\ g[4].ins = <<"bg", "fgs">>
            /\ g[n].op = "overlay" /\ g[n].out = "outv"
            /\ Cardinality({i \in 1..n : g[i].out = "outv"}) = 1
            /\ IF call.srt_path = None
               THEN /\ n = 5
                    /\ \A i \in 1..n : g[i].op # "subtitles"
                    /\ g[5].ins = <<"base", "1:v">>
               ELSE /\ n = 6
                    /\ {i \in 1..n : g[i].op = "subtitles"} = {5}
                    /\ g[5].ins = <<"base">>
                    /\ g[6].ins = <<g[5].out, "1:v">>

\* a graph built for a detected crop and a subtitle file
C10_Witness ==
    /\ Called("build_filtergraph")
    /\ call.srt_path # None
    /\ call.crop_box # None /\ AllPositive(call.crop_box)
    /\ Len(call.result) = 6
    /\ call.result[5].op = "subtitles"
    /\ call.result[6].ins = <<"base2", "1:v">>

SpecialChars == { "\\", ":", ",", "'" }

\* the path with one backslash put before each special character, in one pass
RECURSIVE EscapeEach(_)
EscapeEach(path) ==
    IF path = <<>> THEN <<>>
    ELSE (IF Head(path) \in SpecialChars THEN <<"\\", Head(path)>> ELSE <<Head(path)>>)
         \o EscapeEach(Tail(path))

\* the reading of an escaped path: a backslash is dropped and the character behind it
\* is taken as it stands
RECURSIVE Unescape(_)
Unescape(s) ==
    IF s = <<>> THEN <<>>
    ELSE IF Head(s) = "\\" /\ Len(s) >= 2
         THEN <<s[2]>> \o Unescape(SubSeq(s, 3, Len(s)))
         ELSE <<Head(s)>> \o Unescape(Tail(s))

\* C11: the output of escape_for_subtitles is the path with exactly one backslash put
\* before each backslash, colon, comma and single quote and every other character
\* unchanged (no inserted backslash is escaped again), so that dropping one escaping
\* backslash per escaped character gives the path back; the subtitles stage of
\* build_filtergraph carries the path escaped this way.
C11_PathEscaping ==
    /\ Called("escape_for_subtitles") =>
          /\ call.result = EscapeEach(call.path)
          /\ Len(call.result) = Len(call.path)
                + Cardinality({i \in 1..Len(call.path) : call.path[i] \in SpecialChars})
          /\ Unescape(call.result) = call.path
    /\ (Called("build_filtergraph") /\ call.srt_path # None) =>
          /\ call.result[5].path = EscapeEach(call.srt_path)
          /\ Unescape(call.result[5].path) = call.srt_path

\* a path with a backslash, a colon, a comma and a single quote, each escaped once
C11_Witness ==
    /\ Called("escape_for_subtitles")
    /\ SpecialChars \subseteq {call.path[i] : i \in 1..Len(call.path)}
    /\ Len(call.result) = Len(call.path) + 4
    /\ Unescape(call.result) = call.path

\* C12: the subtitle decision of a clip follows the three-policy table: mode off gives
\* None whatever files exist; mode file gives the explicit file if it exists, and None
\* with a warning and without an exception (main goes on) if it does not exist or is
\* empty; mode auto gives the file beside the clip when it exists, also when the
\* candidate in the search directory exists, else that candidate when it exists,
\* else None.
C12_SubtitlePolicyTable ==
    (pc = "crop" /\ lookup.done) =>
       /\ abortCause = ""
       /\ args.subs_mode = "off" => srt = None
       /\ args.subs_mode = "file" =>
             IF Len(args.subs_file) > 0 /\ args.subs_file_exists
             THEN srt = args.subs_file
             ELSE srt = None /\ lookup.warned
       /\ args.subs_mode = "auto" =>
             srt = IF lookup.beside THEN SrtBesideClip(inputs[idx])
                   ELSE IF lookup.in_dir THEN SrtInSubsDir(inputs[idx])
                   ELSE None

\* C13: when the template does not exist, main raises FileNotFoundError before any
\* clip is processed: no subtitle lookup, no detector call, no dimension probe and no
\* ff_design call is made for any clip.
C13_MissingTemplateFailsFast ==
    ~args.template_exists =>
       /\ pc \in {"start", "aborted"}
       /\ pc = "aborted" => abortCause = "FileNotFoundError"
       /\ idx = 0
       /\ srt = None /\ lookup = NoLookup
       /\ trace = NothingResolved /\ crop_box = None
       /\ job = NoJob /\ renders = <<>>

\* main has raised for the missing template with a full directory of clips, subtitles
\* in auto mode and the detector switched on
C13_Witness ==
    /\ pc = "aborted" /\ abortCause = "FileNotFoundError"
    /\ ~args.template_exists
    /\ Len(inputs) = MaxClips
    /\ args.subs_mode = "auto" /\ args.pyannote_token /\ ~args.disable_smart_crop
    /\ renders = <<>> /\ job = NoJob

\* C14: when --width or --height is zero or negative, main fails before any clip is
\* processed: no detector call and no ff_design call is made with the invalid canvas.
C14_InvalidCanvasFailsFast ==
    (args.width <= 0 \/ args.height <= 0) =>
       /\ ~trace.detector_called
       /\ job = NoJob /\ renders = <<>>

\* the algorithm with floors: new extents floor(w * factor), new origin
\* floor(centre - new extent / 2) clamped to 0, then the extents clamped to the frame
FloorExpand(crop, fw, fh, f) ==
    LET w1 == (crop[3] * f) \div FactorDen
        h1 == (crop[4] * f) \div FactorDen
        x1 == Max(0, (2 * crop[1] + crop[3] - w1) \div 2)
        y1 == Max(0, (2 * crop[2] + crop[4] - h1) \div 2)
    IN  <<x1, y1, Min(w1, fw - x1), Min(h1, fh - y1)>>

\* C15: for every valid rectangle, frame and positive factor, expand_crop_box returns
\* what the floor-based algorithm returns (origin clamped first, then the extents),
\* although it truncates with int(); (0,0,100,100) in a 150x150 frame with factor 3.0
\* gives (0,0,150,150).
C15_EqualsFloorAlgorithm ==
    Called("expand_crop_box") =>
       /\ call.result = FloorExpand(call.crop_box, call.video_w, call.video_h, call.factor)
       /\ (/\ call.crop_box = <<0, 0, 100, 100>>
           /\ call.video_w = 150 /\ call.video_h = 150
           /\ call.factor = 3 * One) => call.result = <<0, 0, 150, 150>>

\* the region at the corner of the 150x150 frame has been expanded
C15_EdgeCaseComputed ==
    /\ Called("expand_crop_box")
    /\ call.crop_box = <<0, 0, 100, 100>>
    /\ call.video_w = 150 /\ call.video_h = 150 /\ call.factor = 3 * One
    /\ call.result = <<0, 0, 150, 150>>

\* an expansion whose new origin is a negative half before the clamp, where int() and
\* floor differ (int(-0.5) = 0, floor(-0.5) = -1), with the result of the floor algorithm
C15_Witness ==
    /\ Called("expand_crop_box")
    /\ call.result = FloorExpand(call.crop_box, call.video_w, call.video_h, call.factor)
    /\ Recenter(call.crop_box[1], call.crop_box[3],
                ScaleExtent(call.crop_box[3], call.factor))
         # (2 * call.crop_box[1] + call.crop_box[3]
              - ScaleExtent(call.crop_box[3], call.factor)) \div 2

\* C16: within one run of main, different clips are rendered to different destination
\* paths, so that no output is overwritten by the output of a later clip.
C16_DistinctDestinations ==
    \A i, j \in 1..Len(renders) :
       (i < j /\ renders[i].clip # renders[j].clip) => renders[i].dst # renders[j].dst

====
